---- MODULE Spec2Model ----
(***************************************************************************)
(* ChatHub: the Postgres tables, row-level-security policies and RPC       *)
(* functions of the Supabase backend, and the ChatWindow / FriendsPanel    *)
(* client handlers that use them.                                          *)
(*                                                                         *)
(* An RPC function runs as one READ COMMITTED transaction: each of its     *)
(* statements reads the rows committed when the statement starts, and its  *)
(* own writes become visible to other transactions when it commits.  A     *)
(* function is therefore one action per statement that reads, with the     *)
(* writes applied by the last one.                                         *)
(***************************************************************************)
EXTENDS Integers, Sequences, FiniteSets, TLC

Users == {"A", "B", "C"}

\* The two users whose friend requests are explored.
FriendUsers == {"A", "B"}

\* Bounds of the model.
MaxChats == 2        \* chats rows that may be created
MaxCalls == 2        \* client calls in flight at the same time
MaxMsgs == 2         \* messages rows that may be inserted
MaxDup == 1          \* events the push channel may deliver twice
MaxPush == 1         \* messages rows inserted while the push channel is explored
MaxTypingEvents == 2 \* typing events queued for the subscription
MaxRows == 3         \* messages rows of the chat whose ordered reads are explored
MaxTime == 2         \* distinct created_at values of those rows
MaxReads == 2        \* ordered reads taken between two writes
MaxRetriesArg == 3   \* largest maxRetries passed to queryWithRetry
MaxDraft == 2        \* characters of a typed draft
MaxFwd == 2          \* messages selected for forwarding

\* queryWithRetry(queryFn, maxRetries = 3, delay = 1000)
DefaultDelay == 1000

\* setTimeout(() => updateTypingStatus(false), 3000): the idle window in seconds
IdleWindow == 3

Slots == 1..MaxCalls

VARIABLES
  chats,                  \* table chats: rows [id, type]
  chat_members,           \* table chat_members: rows [chat_id, user_id, role]
  chat_membership_cache,  \* materialized view: rows [chat_id, user_id]
  group_invitations,      \* table group_invitations: rows [chat_id, invitee_id, status]
  friend_requests,        \* table friend_requests: rows [sender_id, receiver_id, status]
  friendships,            \* table friendships: rows [user1_id, user2_id]
  rpc,                    \* the calls in flight, one per slot
  messages,               \* table messages in created_at order: rows [id, chat_id, sender_id]
  msgCount,               \* messages rows inserted so far (ids are never reused)
  sendLog,                \* history: the accepted messages inserts
  cw,                     \* the ChatWindow: [mounted, user, chatId]
  cwMessages,             \* ChatWindow state `messages`
  fetch,                  \* fetchMessages in flight: [state, rows]
  poll,                   \* pollForNewMessages in flight: [busy, rows]
  chanMessages,           \* events queued for channel `messages:<chatId>`
  chanRealtime,           \* events queued for channel `realtime-messages`
  pendingProfile,         \* INSERT handlers awaiting the sender profile
  pendingFetch,           \* fetchMessageWithSender calls awaiting the row
  dupCount,               \* events delivered twice so far
  del,                    \* deleteMessage in flight and its outcome
  toast,                  \* the last notification shown by the ChatWindow
  sidebar,                \* ChatSidebar: ids of the messages listed for the chat
  sinceRemoval,           \* history: messages committed since the viewer's removal
  leak,                   \* history: an event committed after the removal was handled
  typing_status,          \* table typing_status: rows [chat_id, user_id, is_typing]
  typingUsers,            \* ChatWindow state `typingUsers`
  chanTyping,             \* events queued for channel `typing:<chatId>`
  typist,                 \* the other member's ChatWindow: [open, user, chatId, timer, timerChat]
  idle,                   \* seconds since the typist's last update_typing_status
  heard,                  \* history: the ChatWindow was subscribed at that update
  presenceState,          \* presence state of channel `typing-<chatId>`: key -> payload
  presenceUsers,          \* useTyping state `typingUsers`
  grp,                    \* createGroup in flight: [pc, user, chat, friends]
  grpToast,               \* the last notification shown by CreateGroupModal
  msgRows,                \* one chat's messages rows with their timestamp: [id, created_at]
  reads,                  \* results of the ordered query since the last write
  returned,               \* history: ids returned by reads before the last write
  qr,                     \* queryWithRetry: [pc, maxRetries, delay, retries, lastError, data, error]
  attempts,               \* history: the outcomes of the queryFn invocations, in order
  waits,                  \* history: the timeouts awaited between attempts, in order
  form,                   \* the message form: [pc, draft, sending, last, submitted]
  loadError,              \* ChatWindow state `error`
  infoPc,                 \* fetchChatInfo of the running load: "todo" or "done"
  sentContents,           \* history: the contents inserted by handleSendMessage
  sendFailed,             \* history: an insert of handleSendMessage failed
  loadFailed,             \* history: a load failed
  fwd,                    \* handleForwardToFriend: [pc, slot, chatId, pending]
  fwdOrder                \* history: the forwarded messages in the order of their inserts

memberVars == <<chats, chat_members, chat_membership_cache, group_invitations>>
friendVars == <<friend_requests, friendships>>
dbVars == <<memberVars, friendVars>>
msgVars == <<messages, msgCount, sendLog>>
chanVars == <<chanMessages, chanRealtime, pendingProfile, pendingFetch, dupCount>>
cwVars == <<cw, cwMessages, fetch, poll, chanVars, del, toast, sidebar>>
histVars == <<sinceRemoval, leak>>
typVars == <<typing_status, typingUsers, chanTyping, typist, idle, heard>>
presVars == <<presenceState, presenceUsers>>
grpVars == <<grp, grpToast>>
readVars == <<msgRows, reads, returned>>
retryVars == <<qr, attempts, waits>>
formVars == <<form, loadError, infoPc, sentContents, sendFailed, loadFailed>>
fwdVars == <<fwd, fwdOrder>>
moreVars == <<formVars, fwdVars>>
libVars == <<presVars, grpVars, readVars, retryVars, moreVars>>
clientVars == <<msgVars, cwVars, histVars, typVars, libVars>>

vars == <<dbVars, rpc, clientVars>>

-----------------------------------------------------------------------------
Range(f) == {f[i] : i \in DOMAIN f}

-----------------------------------------------------------------------------
(* Calls in flight *)

NoCall == [op |-> "idle", caller |-> "none", a1 |-> "none", a2 |-> "none",
           accept |-> FALSE, pc |-> "idle", fresh |-> FALSE,
           result |-> 0, error |-> "none"]

\* A new call takes the lowest free slot.
FreeSlot(k) == /\ rpc[k].op = "idle"
               /\ \A j \in Slots : j < k => rpc[j].op # "idle"

Done(k, res, err) == [rpc[k] EXCEPT !.pc = "done", !.result = res, !.error = err]

\* The client has received the answer of a finished call.
RpcReturn(k) ==
  /\ rpc[k].pc = "done"
  /\ rpc' = [rpc EXCEPT ![k] = NoCall]
  /\ UNCHANGED <<dbVars, clientVars>>

-----------------------------------------------------------------------------
(* Tables *)

Members(c) == {m.user_id : m \in {x \in chat_members : x.chat_id = c}}

\* Mutant: the view is refreshed after inserts only, so it never loses a pair.
RefreshedCache_InsertOnly(members) ==
  chat_membership_cache \cup {[chat_id |-> m.chat_id, user_id |-> m.user_id] : m \in members}

\* REFRESH MATERIALIZED VIEW chat_membership_cache, run by the statement
\* trigger on chat_members: SELECT DISTINCT chat_id, user_id FROM chat_members.
RefreshedCache(members) ==
  {[chat_id |-> m.chat_id, user_id |-> m.user_id] : m \in members}

\* Direct chats that have a chat_members row for u1 and one for u2.
DirectChatsOf(u1, u2) ==
  {c.id : c \in {x \in chats : /\ x.type = "direct"
                               /\ u1 \in Members(x.id)
                               /\ u2 \in Members(x.id)}}

NewChatId == Cardinality(chats) + 1

-----------------------------------------------------------------------------
(* create_direct_chat(p_user1_id, p_user2_id) *)

\* supabase.rpc('create_direct_chat', {p_user1_id, p_user2_id}) is sent
RpcCreateDirectChat(k, caller, u1, u2) ==
  /\ FreeSlot(k)
  /\ rpc' = [rpc EXCEPT ![k] = [NoCall EXCEPT !.op = "create_direct_chat",
                                  !.caller = caller, !.a1 = u1, !.a2 = u2,
                                  !.pc = "select",
                                  !.fresh = (DirectChatsOf(u1, u2) = {})]]

CreateDirectChatCall(k, caller, u1, u2) ==
  /\ RpcCreateDirectChat(k, caller, u1, u2)
  /\ UNCHANGED <<dbVars, clientVars>>

\* SELECT c.id INTO v_existing_chat_id ... LIMIT 1; IF ... IS NOT NULL THEN RETURN
CreateDirectChatSelect(k) ==
  /\ rpc[k].op = "create_direct_chat"
  /\ rpc[k].pc = "select"
  /\ IF DirectChatsOf(rpc[k].a1, rpc[k].a2) # {}
       THEN \E c \in DirectChatsOf(rpc[k].a1, rpc[k].a2) :
              rpc' = [rpc EXCEPT ![k] = Done(k, c, "none")]
       ELSE rpc' = [rpc EXCEPT ![k].pc = "insert"]
  /\ UNCHANGED <<dbVars, clientVars>>

\* TRIGGER on_chat_created AFTER INSERT ON chats FOR EACH ROW: handle_new_chat()
\* inserts (NEW.id, auth.uid(), 'admin') into chat_members.
HandleNewChat(id, uid) == [chat_id |-> id, user_id |-> uid, role |-> "admin"]

\* INSERT INTO chats ... (fires on_chat_created); INSERT INTO chat_members ...
\* (two rows); RETURN v_chat_id
CreateDirectChatInsert(k) ==
  /\ rpc[k].op = "create_direct_chat"
  /\ rpc[k].pc = "insert"
  /\ Cardinality(chats) < MaxChats
  /\ LET id == NewChatId
         rows == {[chat_id |-> id, user_id |-> rpc[k].a1, role |-> "member"],
                  [chat_id |-> id, user_id |-> rpc[k].a2, role |-> "member"]}
     IN IF rpc[k].a1 = rpc[k].a2 \/ rpc[k].caller \in {rpc[k].a1, rpc[k].a2}
          THEN \* UNIQUE(chat_id, user_id): the transaction is rolled back
               /\ rpc' = [rpc EXCEPT ![k] = Done(k, 0, "unique_violation")]
               /\ UNCHANGED <<dbVars, clientVars>>
          ELSE /\ chats' = chats \cup {[id |-> id, type |-> "direct"]}
               /\ chat_members' = chat_members \cup {HandleNewChat(id, rpc[k].caller)}
                                     \cup rows
               /\ chat_membership_cache' = RefreshedCache(chat_members')
               /\ rpc' = [rpc EXCEPT ![k] = Done(k, id, "none")]
               /\ UNCHANGED <<group_invitations, friendVars, clientVars>>

-----------------------------------------------------------------------------
(* chat_members: direct inserts through the REST API, under row level security *)

\* POLICY "Users can insert their own chat memberships": auth.uid() = user_id
InsertOwnMembershipPolicy(uid, row) == uid = row.user_id

\* POLICY "Users can add themselves to chats"
AddThemselvesPolicy(uid, row) ==
  /\ row.user_id = uid
  /\ \/ \E c \in chats : c.id = row.chat_id /\ c.type = "direct"
     \/ \E gi \in group_invitations : /\ gi.chat_id = row.chat_id
                                      /\ gi.invitee_id = uid
                                      /\ gi.status = "accepted"

\* Permissive policies are combined with OR.
ChatMembersInsertAllowed(uid, row) ==
  \/ InsertOwnMembershipPolicy(uid, row)
  \/ AddThemselvesPolicy(uid, row)

\* UNIQUE(chat_id, user_id)
ChatMembersUnique(row) ==
  ~\E m \in chat_members : m.chat_id = row.chat_id /\ m.user_id = row.user_id

\* supabase.from('chat_members').insert({chat_id, user_id}) by user uid
InsertChatMember(uid, c, u) ==
  LET row == [chat_id |-> c, user_id |-> u, role |-> "member"]
  IN /\ \E x \in chats : x.id = c
     /\ ChatMembersInsertAllowed(uid, row)
     /\ ChatMembersUnique(row)
     /\ chat_members' = chat_members \cup {row}
     /\ chat_membership_cache' = RefreshedCache(chat_members')
     /\ UNCHANGED <<chats, group_invitations, friendVars, rpc, clientVars>>

-----------------------------------------------------------------------------
(* FriendsPanel.sendFriendRequest(userId), run by user caller *)

RequestsBetween(a, b) ==
  {r \in friend_requests : \/ (r.sender_id = a /\ r.receiver_id = b)
                           \/ (r.sender_id = b /\ r.receiver_id = a)}

FriendshipsBetween(a, b) ==
  {f \in friendships : \/ (f.user1_id = a /\ f.user2_id = b)
                       \/ (f.user1_id = b /\ f.user2_id = a)}

SendFriendRequestCall(k, caller, userId) ==
  /\ FreeSlot(k)
  /\ caller # userId
  /\ rpc' = [rpc EXCEPT ![k] = [NoCall EXCEPT !.op = "sendFriendRequest",
                                  !.caller = caller, !.a1 = caller, !.a2 = userId,
                                  !.pc = "checkRequest"]]
  /\ UNCHANGED <<dbVars, clientVars>>

\* .from('friend_requests').select('*').or(...).single(): a row is returned only
\* when exactly one matches; no row and several rows both give PGRST116.
SendFriendRequestCheckRequest(k) ==
  /\ rpc[k].op = "sendFriendRequest"
  /\ rpc[k].pc = "checkRequest"
  /\ rpc' = [rpc EXCEPT ![k] =
               IF Cardinality(RequestsBetween(rpc[k].a1, rpc[k].a2)) = 1
                 THEN Done(k, 0, "request_exists")
                 ELSE [rpc[k] EXCEPT !.pc = "checkFriendship"]]
  /\ UNCHANGED <<dbVars, clientVars>>

SendFriendRequestCheckFriendship(k) ==
  /\ rpc[k].op = "sendFriendRequest"
  /\ rpc[k].pc = "checkFriendship"
  /\ rpc' = [rpc EXCEPT ![k] =
               IF Cardinality(FriendshipsBetween(rpc[k].a1, rpc[k].a2)) = 1
                 THEN Done(k, 0, "already_friends")
                 ELSE [rpc[k] EXCEPT !.pc = "insert"]]
  /\ UNCHANGED <<dbVars, clientVars>>

\* .from('friend_requests').insert([{sender_id, receiver_id, status: 'pending'}])
\* POLICY "Users can send friend requests": auth.uid() = sender_id; UNIQUE(sender_id, receiver_id)
SendFriendRequestInsert(k) ==
  /\ rpc[k].op = "sendFriendRequest"
  /\ rpc[k].pc = "insert"
  /\ IF \E r \in friend_requests : r.sender_id = rpc[k].a1 /\ r.receiver_id = rpc[k].a2
       THEN /\ rpc' = [rpc EXCEPT ![k] = Done(k, 0, "unique_violation")]
            /\ UNCHANGED <<dbVars, clientVars>>
       ELSE /\ friend_requests' = friend_requests \cup
                 {[sender_id |-> rpc[k].a1, receiver_id |-> rpc[k].a2,
                   status |-> "pending"]}
            /\ rpc' = [rpc EXCEPT ![k] = Done(k, 0, "none")]
            /\ UNCHANGED <<memberVars, friendships, clientVars>>

-----------------------------------------------------------------------------
(* handle_friend_request(p_request_id, p_accept); the request row of sender s *)
(* and receiver r is identified by (s, r)                                     *)

AllowedStatus == {"pending", "accepted", "declined"}

\* SET status = CASE WHEN p_accept THEN 'accepted' ELSE 'rejected' END
NewStatus(accept) == IF accept THEN "accepted" ELSE "rejected"

\* The UPDATE holds the row lock of the request until the transaction ends.
HoldsRowLock(j, s, r) ==
  /\ rpc[j].op = "handle_friend_request"
  /\ rpc[j].pc \in {"check", "insert"}
  /\ rpc[j].a1 = s
  /\ rpc[j].a2 = r

HandleFriendRequestCall(k, caller, s, r, accept) ==
  /\ FreeSlot(k)
  /\ s # r
  /\ rpc' = [rpc EXCEPT ![k] = [NoCall EXCEPT !.op = "handle_friend_request",
                                  !.caller = caller, !.a1 = s, !.a2 = r,
                                  !.accept = accept, !.pc = "select"]]
  /\ UNCHANGED <<dbVars, clientVars>>

\* SELECT ... INTO; IF NOT FOUND THEN RAISE; UPDATE friend_requests SET status
HandleFriendRequestUpdate(k) ==
  /\ rpc[k].op = "handle_friend_request"
  /\ rpc[k].pc = "select"
  /\ IF ~\E q \in friend_requests : q.sender_id = rpc[k].a1 /\ q.receiver_id = rpc[k].a2
       THEN rpc' = [rpc EXCEPT ![k] = Done(k, 0, "not_found")]
       ELSE /\ ~\E j \in Slots \ {k} : HoldsRowLock(j, rpc[k].a1, rpc[k].a2)
            /\ rpc' = [rpc EXCEPT ![k] =
                         IF NewStatus(rpc[k].accept) \in AllowedStatus
                           THEN [rpc[k] EXCEPT !.pc = "check"]
                           ELSE Done(k, 0, "check_violation")]
  /\ UNCHANGED <<dbVars, clientVars>>

WithStatus(s, r, st) ==
  {IF q.sender_id = s /\ q.receiver_id = r THEN [q EXCEPT !.status = st] ELSE q
     : q \in friend_requests}

\* IF p_accept THEN IF NOT EXISTS (SELECT 1 FROM friendships ...) THEN
HandleFriendRequestCheck(k) ==
  /\ rpc[k].op = "handle_friend_request"
  /\ rpc[k].pc = "check"
  /\ IF ~rpc[k].accept \/ FriendshipsBetween(rpc[k].a1, rpc[k].a2) # {}
       THEN \* nothing more to insert: the status update is committed
            /\ friend_requests' = WithStatus(rpc[k].a1, rpc[k].a2, NewStatus(rpc[k].accept))
            /\ rpc' = [rpc EXCEPT ![k] = Done(k, 0, "none")]
            /\ UNCHANGED <<memberVars, friendships, clientVars>>
       ELSE /\ rpc' = [rpc EXCEPT ![k].pc = "insert"]
            /\ UNCHANGED <<dbVars, clientVars>>

\* INSERT INTO friendships; INSERT INTO chats (fires on_chat_created);
\* INSERT INTO chat_members; commit
HandleFriendRequestInsert(k) ==
  /\ rpc[k].op = "handle_friend_request"
  /\ rpc[k].pc = "insert"
  /\ LET s == rpc[k].a1
         r == rpc[k].a2
         id == NewChatId
     IN IF \/ \E f \in friendships : f.user1_id = s /\ f.user2_id = r
           \/ rpc[k].caller \in {s, r}
          THEN \* UNIQUE(user1_id, user2_id) or UNIQUE(chat_id, user_id): the
               \* transaction is rolled back
               /\ rpc' = [rpc EXCEPT ![k] = Done(k, 0, "unique_violation")]
               /\ UNCHANGED <<dbVars, clientVars>>
          ELSE /\ Cardinality(chats) < MaxChats
               /\ friendships' = friendships \cup {[user1_id |-> s, user2_id |-> r]}
               /\ chats' = chats \cup {[id |-> id, type |-> "direct"]}
               /\ chat_members' = chat_members \cup
                    {HandleNewChat(id, rpc[k].caller),
                     [chat_id |-> id, user_id |-> s, role |-> "member"],
                     [chat_id |-> id, user_id |-> r, role |-> "member"]}
               /\ chat_membership_cache' = RefreshedCache(chat_members')
               /\ friend_requests' = WithStatus(s, r, NewStatus(rpc[k].accept))
               /\ rpc' = [rpc EXCEPT ![k] = Done(k, 0, "none")]
               /\ UNCHANGED <<group_invitations, clientVars>>

-----------------------------------------------------------------------------
(* chat_members: a user leaves a chat *)

\* POLICY "Users can delete their own chat memberships": auth.uid() = user_id
DeleteOwnMembershipPolicy(uid, row) == uid = row.user_id

\* The ChatWindow is open on chat c and its user has no chat_members row for c.
ViewerRemoved(c) == cw.mounted /\ cw.chatId = c /\ cw.user \notin Members(c)

\* supabase.from('chat_members').delete().eq('chat_id', c).eq('user_id', u) by user uid
DeleteChatMember(uid, c, u) ==
  LET gone == {m \in chat_members : /\ m.chat_id = c
                                    /\ m.user_id = u
                                    /\ DeleteOwnMembershipPolicy(uid, m)}
  IN /\ gone # {}
     /\ chat_members' = chat_members \ gone
     /\ chat_membership_cache' = RefreshedCache(chat_members')
     /\ sinceRemoval' = IF cw.mounted /\ cw.chatId = c /\ cw.user = u
                          THEN {} ELSE sinceRemoval
     /\ UNCHANGED <<chats, group_invitations, friendVars, rpc, typVars, libVars, msgVars, cwVars, leak>>

-----------------------------------------------------------------------------
(* messages: row level security and the REST operations *)

ChatMessages(c) == SelectSeq(messages, LAMBDA m : m.chat_id = c)

\* Mutant: the policy lets every user read every chat.
MessagesSelectPolicy_Everyone(uid, c) == \E x \in chats : x.id = c

\* POLICY "Users can view messages in their chats" (on chat_membership_cache)
MessagesSelectPolicy(uid, c) ==
  \E cmc \in chat_membership_cache : cmc.chat_id = c /\ cmc.user_id = uid

\* Mutant: the policy checks the sender only.
InsertMessagesPolicy_SenderOnly(uid, row) == row.sender_id = uid

\* POLICY "Users can insert messages in their chats" (on chat_membership_cache)
InsertMessagesPolicy(uid, row) ==
  /\ \E cmc \in chat_membership_cache : /\ cmc.chat_id = row.chat_id
                                        /\ cmc.user_id = uid
  /\ row.sender_id = uid

\* POLICY "Users can send messages to their chats" (on chat_members)
SendMessagesPolicy(uid, row) ==
  /\ uid = row.sender_id
  /\ row.chat_id \in {m.chat_id : m \in {x \in chat_members : x.user_id = uid}}

MessagesInsertAllowed(uid, row) ==
  \/ InsertMessagesPolicy(uid, row)
  \/ SendMessagesPolicy(uid, row)

\* POLICY "Users can delete their own messages": sender_id = auth.uid()
MessagesDeletePolicy(uid, row) == row.sender_id = uid

\* .from('messages').select(...).eq('chat_id', chatId).order('created_at')
SelectMessages(uid, c) ==
  IF MessagesSelectPolicy(uid, c) THEN ChatMessages(c) ELSE <<>>

\* The change event of a row; `after` records that the viewer had already been
\* removed from the chat when the change was committed.
Event(kind, m) ==
  [kind |-> kind, id |-> m.id, chat_id |-> m.chat_id, sender_id |-> m.sender_id,
   after |-> ViewerRemoved(m.chat_id)]

\* filter: `chat_id=eq.${chatId}` of the subscriptions of the mounted ChatWindow
Published(queue, evs) ==
  IF evs # <<>> /\ cw.mounted /\ cw.chatId = evs[1].chat_id THEN queue \o evs ELSE queue

\* INSERT INTO messages under row level security, and its publication
InsertMessageRows(uid, c, sender) ==
  LET row == [id |-> msgCount + 1, chat_id |-> c, sender_id |-> sender]
  IN /\ msgCount < MaxMsgs
     /\ \E x \in chats : x.id = c
     /\ IF MessagesInsertAllowed(uid, row)
          THEN /\ messages' = Append(messages, row)
               /\ msgCount' = msgCount + 1
               /\ sendLog' = sendLog \cup
                    {[id |-> row.id, uid |-> uid, sender_id |-> sender,
                      chat_id |-> c, member |-> uid \in Members(c)]}
               /\ chanMessages' = Published(chanMessages, <<Event("INSERT", row)>>)
               /\ chanRealtime' = Published(chanRealtime, <<Event("INSERT", row)>>)
               /\ sinceRemoval' = IF ViewerRemoved(c) THEN sinceRemoval \cup {row.id}
                                                      ELSE sinceRemoval
          ELSE UNCHANGED <<msgVars, chanMessages, chanRealtime, sinceRemoval>>

\* supabase.from('messages').insert([{chat_id, sender_id, content}]) by user uid
InsertMessage(uid, c, sender) ==
  /\ InsertMessageRows(uid, c, sender)
  /\ UNCHANGED <<dbVars, rpc, typVars, libVars, cw, cwMessages, fetch, poll, pendingProfile,
                 pendingFetch, dupCount, del, sidebar, leak>>

\* A user other than the ChatWindow's sends through the REST API.
RestInsertMessage(uid, c, sender) ==
  /\ InsertMessage(uid, c, sender)
  /\ UNCHANGED toast

\* ChatWindow.handleSendMessage
HandleSendMessage ==
  /\ cw.mounted
  /\ InsertMessage(cw.user, cw.chatId, cw.user)
  /\ toast' = IF MessagesInsertAllowed(cw.user,
                   [id |-> msgCount + 1, chat_id |-> cw.chatId, sender_id |-> cw.user])
                THEN toast ELSE "Failed to send message"

\* The ids of the rows among `ids` that a DELETE by uid removes.
Deletable(uid, ids) ==
  {messages[i].id : i \in {j \in 1..Len(messages) :
                             /\ messages[j].id \in ids
                             /\ MessagesDeletePolicy(uid, messages[j])}}

\* The rows are removed and one DELETE event per row is published.
DeleteRows(gone) ==
  LET rows == SelectSeq(messages, LAMBDA m : m.id \in gone)
      evs == [i \in 1..Len(rows) |-> Event("DELETE", rows[i])]
  IN /\ messages' = SelectSeq(messages, LAMBDA m : m.id \notin gone)
     /\ chanMessages' = Published(chanMessages, evs)
     /\ chanRealtime' = Published(chanRealtime, evs)

\* Another user's client deletes a message: .delete().eq('id', id).eq('sender_id', uid)
RestDeleteMessage(uid, id) ==
  /\ Deletable(uid, {id}) # {}
  /\ DeleteRows(Deletable(uid, {id}))
  /\ UNCHANGED <<dbVars, rpc, typVars, libVars, msgCount, sendLog, cw, cwMessages, fetch, poll,
                 pendingProfile, pendingFetch, dupCount, del, toast, sidebar, histVars>>

-----------------------------------------------------------------------------
(* ChatWindow: mount, initial fetch and the 1-second poll *)

NoWindow == [mounted |-> FALSE, user |-> "none", chatId |-> 0]

NoDelete == [state |-> "idle", id |-> 0, sender |-> "none", removed |-> FALSE]

\* The user selects one of their chats in the sidebar: the ChatWindow mounts,
\* calls fetchMessages, starts the poll timer and subscribes its channels.
OpenChat(u, c) ==
  /\ ~cw.mounted
  /\ u \in Members(c)
  /\ cw' = [mounted |-> TRUE, user |-> u, chatId |-> c]
  /\ cwMessages' = <<>>
  /\ fetch' = [state |-> "pending", rows |-> <<>>]
  /\ UNCHANGED <<dbVars, rpc, typVars, libVars, msgVars, poll, chanVars, del, toast, sidebar, histVars>>

\* The user selects another of their chats: the effect cleanup of the old chat
\* runs (mounted = false, clearInterval, channel.unsubscribe, removeChannel)
\* and the effect runs again for the new chatId. The component stays mounted,
\* so its state `messages` is kept, and so are the handlers that are past
\* their `if (mounted)` test and await a response.
SwitchChat(c) ==
  /\ cw.mounted
  /\ c # cw.chatId
  /\ cw.user \in Members(c)
  /\ cw' = [cw EXCEPT !.chatId = c]
  /\ fetch' = [state |-> "pending", rows |-> <<>>]
  /\ poll' = [busy |-> FALSE, rows |-> <<>>]
  /\ chanMessages' = <<>>
  /\ chanRealtime' = <<>>
  /\ UNCHANGED <<dbVars, rpc, typVars, libVars, msgVars, cwMessages, pendingProfile,
                 pendingFetch, dupCount, del, toast, sidebar, histVars>>

\* fetchMessages: the query runs on the server
FetchQuery ==
  /\ fetch.state = "pending"
  /\ fetch' = [state |-> "resp", rows |-> SelectMessages(cw.user, cw.chatId)]
  /\ UNCHANGED <<dbVars, rpc, typVars, libVars, msgVars, cw, cwMessages, poll, chanVars, del, toast,
                 sidebar, histVars>>

\* fetchMessages: setMessages(messages.map(...))
FetchApply ==
  /\ fetch.state = "resp"
  /\ cw.mounted
  /\ cwMessages' = fetch.rows
  /\ fetch' = [state |-> "idle", rows |-> <<>>]
  /\ UNCHANGED <<dbVars, rpc, typVars, libVars, msgVars, cw, poll, chanVars, del, toast, sidebar, histVars>>

\* pollForNewMessages: the query runs on the server
PollQuery ==
  /\ cw.mounted
  /\ ~poll.busy
  /\ poll' = [busy |-> TRUE, rows |-> SelectMessages(cw.user, cw.chatId)]
  /\ UNCHANGED <<dbVars, rpc, typVars, libVars, msgVars, cw, cwMessages, fetch, chanVars, del, toast,
                 sidebar, histVars>>

\* if (newMessages.length > currentMessages.length) return newMessages;
PollResult(newMessages, currentMessages) ==
  IF Len(newMessages) > Len(currentMessages) THEN newMessages ELSE currentMessages

\* pollForNewMessages: setMessages((currentMessages) => ...)
PollApply ==
  /\ poll.busy
  /\ cw.mounted
  /\ cwMessages' = PollResult(poll.rows, cwMessages)
  /\ poll' = [busy |-> FALSE, rows |-> <<>>]
  /\ UNCHANGED <<dbVars, rpc, typVars, libVars, msgVars, cw, fetch, chanVars, del, toast, sidebar, histVars>>

-----------------------------------------------------------------------------
(* ChatWindow: deleteMessage and deleteAllMessages *)

WithoutId(list, id) == SelectSeq(list, LAMBDA m : m.id # id)

\* deleteMessage(messageId): .delete().eq('id', messageId).eq('sender_id', user.id)
\* runs on the server; rows that do not match are skipped without an error.
DeleteMessageRequest(i) ==
  /\ cw.mounted
  /\ del.state # "sent"
  /\ i \in 1..Len(cwMessages)
  /\ LET m == cwMessages[i]
         gone == Deletable(cw.user, {m.id})
     IN /\ del' = [state |-> "sent", id |-> m.id, sender |-> m.sender_id,
                   removed |-> gone # {}]
        /\ DeleteRows(gone)
  /\ UNCHANGED <<dbVars, rpc, typVars, libVars, msgCount, sendLog, cw, cwMessages, fetch, poll,
                 pendingProfile, pendingFetch, dupCount, toast, sidebar, histVars>>

\* deleteMessage: if (error) throw error; setMessages(prev.filter(...)); toast.success
DeleteMessageResponse ==
  /\ del.state = "sent"
  /\ cwMessages' = WithoutId(cwMessages, del.id)
  /\ toast' = "Message deleted"
  /\ del' = [del EXCEPT !.state = "done"]
  /\ UNCHANGED <<dbVars, rpc, typVars, libVars, msgVars, cw, fetch, poll, chanVars, sidebar, histVars>>

\* deleteAllMessages: .delete().eq('chat_id', chatId).eq('sender_id', user.id)
DeleteAllMessages ==
  /\ cw.mounted
  /\ LET mine == {messages[i].id : i \in {j \in 1..Len(messages) :
                                           /\ messages[j].chat_id = cw.chatId
                                           /\ messages[j].sender_id = cw.user}}
     IN DeleteRows(Deletable(cw.user, mine))
  /\ toast' = "All your messages deleted"
  /\ UNCHANGED <<dbVars, rpc, typVars, libVars, msgCount, sendLog, cw, cwMessages, fetch, poll,
                 pendingProfile, pendingFetch, dupCount, del, sidebar, histVars>>

-----------------------------------------------------------------------------
(* Realtime: the two postgres_changes subscriptions of the ChatWindow *)

Channels == {"messages", "realtime"}

Queue(q) == IF q = "messages" THEN chanMessages ELSE chanRealtime

SetQueue(q, v) ==
  IF q = "messages" THEN chanMessages' = v /\ UNCHANGED chanRealtime
                    ELSE chanRealtime' = v /\ UNCHANGED chanMessages

\* The dispatcher delivers an event to the subscribers that belong to the
\* chat's member set when the event is dispatched.
DispatchAllowed(uid, e) == MessagesSelectPolicy(uid, e.chat_id)

RemoveAt(list, i) == SubSeq(list, 1, i - 1) \o SubSeq(list, i + 1, Len(list))

\* The handlers of channel `messages:<chatId>` and of useRealtime('messages', ...)
HandleEvent(q, e) ==
  /\ leak' = (leak \/ (e.after /\ ViewerRemoved(e.chat_id)))
  /\ IF e.kind = "DELETE"
       THEN \* setMessages((prev) => prev.filter((msg) => msg.id !== payload.old.id))
            /\ cwMessages' = WithoutId(cwMessages, e.id)
            /\ UNCHANGED <<pendingProfile, pendingFetch>>
       ELSE IF q = "messages"
         THEN \* await supabase.from('profiles')...single()
              /\ pendingProfile' = Append(pendingProfile,
                     [id |-> e.id, chat_id |-> e.chat_id, sender_id |-> e.sender_id])
              /\ UNCHANGED <<cwMessages, pendingFetch>>
         ELSE \* fetchMessageWithSender(newMessage.id)
              /\ pendingFetch' = Append(pendingFetch, e.id)
              /\ UNCHANGED <<cwMessages, pendingProfile>>

\* The event at the head of a channel is dispatched.
Deliver(q) ==
  /\ Queue(q) # <<>>
  /\ SetQueue(q, Tail(Queue(q)))
  /\ IF DispatchAllowed(cw.user, Head(Queue(q)))
       THEN HandleEvent(q, Head(Queue(q)))
       ELSE UNCHANGED <<cwMessages, pendingProfile, pendingFetch, leak>>
  /\ UNCHANGED <<dbVars, rpc, typVars, libVars, msgVars, cw, fetch, poll, dupCount, del, toast,
                 sidebar, sinceRemoval>>

\* At-least-once delivery: the event is delivered and stays queued.
Duplicate(q) ==
  /\ Queue(q) # <<>>
  /\ dupCount < MaxDup
  /\ DispatchAllowed(cw.user, Head(Queue(q)))
  /\ dupCount' = dupCount + 1
  /\ HandleEvent(q, Head(Queue(q)))
  /\ UNCHANGED <<dbVars, rpc, typVars, libVars, msgVars, cw, fetch, poll, chanMessages, chanRealtime,
                 del, toast, sidebar, sinceRemoval>>

\* The push channel loses the event.
Lose(q) ==
  /\ Queue(q) # <<>>
  /\ SetQueue(q, Tail(Queue(q)))
  /\ UNCHANGED <<dbVars, rpc, typVars, libVars, msgVars, cw, cwMessages, fetch, poll, pendingProfile,
                 pendingFetch, dupCount, del, toast, sidebar, histVars>>

\* `messages:<chatId>` INSERT handler after the await:
\* setMessages((prev) => [...prev, newMessage])
ProfileFetched(i) ==
  /\ i \in 1..Len(pendingProfile)
  /\ cwMessages' = Append(cwMessages, pendingProfile[i])
  /\ pendingProfile' = RemoveAt(pendingProfile, i)
  /\ UNCHANGED <<dbVars, rpc, typVars, libVars, msgVars, cw, fetch, poll, chanMessages, chanRealtime,
                 pendingFetch, dupCount, del, toast, sidebar, histVars>>

\* fetchMessageWithSender: .from('messages').select(...).eq('id', messageId).single();
\* if (error) return; setMessages(prev => [...prev, message])
MessageFetched(i) ==
  /\ i \in 1..Len(pendingFetch)
  /\ LET found == SelectSeq(messages, LAMBDA m : /\ m.id = pendingFetch[i]
                                                 /\ MessagesSelectPolicy(cw.user, m.chat_id))
     IN cwMessages' = IF found # <<>> THEN Append(cwMessages, found[1]) ELSE cwMessages
  /\ pendingFetch' = RemoveAt(pendingFetch, i)
  /\ UNCHANGED <<dbVars, rpc, typVars, libVars, msgVars, cw, fetch, poll, chanMessages, chanRealtime,
                 pendingProfile, dupCount, del, toast, sidebar, histVars>>

\* POLICY "Users can view chats they are members of"
ChatsSelectPolicy(uid, c) ==
  c \in {m.chat_id : m \in {x \in chat_members : x.user_id = uid}}

\* ChatSidebar.fetchChats, run on every messages and chat_members event
SidebarFetchChats ==
  /\ cw.mounted
  /\ sidebar' = IF ChatsSelectPolicy(cw.user, cw.chatId)
                  THEN {SelectMessages(cw.user, cw.chatId)[i].id :
                          i \in 1..Len(SelectMessages(cw.user, cw.chatId))}
                  ELSE {}
  /\ UNCHANGED <<dbVars, rpc, typVars, libVars, msgVars, cw, cwMessages, fetch, poll, chanVars, del,
                 toast, histVars>>

-----------------------------------------------------------------------------
(* Typing indicator: update_typing_status and the typing_status subscription *)

NoTypist == [open |-> FALSE, user |-> "none", chatId |-> 0, timer |-> -1,
             timerChat |-> 0]

\* POLICY "Users can view typing status of their chats"
TypingSelectPolicy(uid, c) ==
  \E m \in chat_members : m.chat_id = c /\ m.user_id = uid

\* FUNCTION update_typing_status(p_chat_id, p_is_typing): INSERT ... ON CONFLICT
\* (chat_id, user_id) DO UPDATE SET is_typing, last_updated; the change is published
\* to the `typing:<chatId>` subscription of the mounted ChatWindow.
UpdateTypingStatus(uid, c, isTyping) ==
  LET row == [chat_id |-> c, user_id |-> uid, is_typing |-> isTyping]
      subscribed == cw.mounted /\ cw.chatId = c
  IN /\ typing_status' =
          {r \in typing_status : ~(r.chat_id = c /\ r.user_id = uid)} \cup {row}
     /\ chanTyping' = IF subscribed THEN Append(chanTyping, row) ELSE chanTyping
     /\ heard' = subscribed
     /\ idle' = 0

\* The other member opens the chat in their own ChatWindow.
TypistOpen(u, c) ==
  /\ ~typist.open
  /\ u \in Members(c)
  /\ cw.mounted => u # cw.user
  /\ typist' = [open |-> TRUE, user |-> u, chatId |-> c, timer |-> -1, timerChat |-> 0]
  /\ UNCHANGED <<dbVars, rpc, msgVars, cwVars, histVars, libVars, typing_status, typingUsers,
                 chanTyping, idle, heard>>

\* handleTyping: clearTimeout; updateTypingStatus(true); setTimeout(..., 3000).
\* The callback of the timeout closes over the updateTypingStatus, and so the
\* chatId, of the render in which it was set.
HandleTyping ==
  /\ typist.open
  /\ Len(chanTyping) < MaxTypingEvents
  /\ UpdateTypingStatus(typist.user, typist.chatId, TRUE)
  /\ typist' = [typist EXCEPT !.timer = 0, !.timerChat = typist.chatId]
  /\ UNCHANGED <<dbVars, rpc, msgVars, cwVars, histVars, libVars, typingUsers>>

\* The timeout set by handleTyping fires: updateTypingStatus(false)
TypingTimeout ==
  /\ typist.open
  /\ typist.timer = IdleWindow
  /\ Len(chanTyping) < MaxTypingEvents
  /\ UpdateTypingStatus(typist.user, typist.timerChat, FALSE)
  /\ typist' = [typist EXCEPT !.timer = -1, !.timerChat = 0]
  /\ UNCHANGED <<dbVars, rpc, msgVars, cwVars, histVars, libVars, typingUsers>>

\* The typist's tab is closed or loses its connection: its timers are gone.
TypistClose ==
  /\ typist.open
  /\ typist' = NoTypist
  /\ UNCHANGED <<dbVars, rpc, msgVars, cwVars, histVars, libVars, typing_status, typingUsers,
                 chanTyping, idle, heard>>

\* The typist selects another of their chats: the component stays mounted with
\* the new chatId; typingTimeoutRef and a pending timeout are kept.
TypistSwitch(c) ==
  /\ typist.open
  /\ c # typist.chatId
  /\ typist.user \in Members(c)
  /\ typist' = [typist EXCEPT !.chatId = c]
  /\ UNCHANGED <<dbVars, rpc, msgVars, cwVars, histVars, libVars, typing_status, typingUsers,
                 chanTyping, idle, heard>>

\* The typist sends the draft: handleSendMessage inserts the message and on
\* success calls updateTypingStatus(false); a pending timeout is left alone.
TypistSend ==
  /\ typist.open
  /\ Len(chanTyping) < MaxTypingEvents
  /\ InsertMessageRows(typist.user, typist.chatId, typist.user)
  /\ IF MessagesInsertAllowed(typist.user,
          [id |-> msgCount + 1, chat_id |-> typist.chatId, sender_id |-> typist.user])
       THEN UpdateTypingStatus(typist.user, typist.chatId, FALSE)
       ELSE UNCHANGED <<typing_status, chanTyping, heard, idle>>
  /\ UNCHANGED <<dbVars, rpc, cw, cwMessages, fetch, poll, pendingProfile, pendingFetch,
                 dupCount, del, toast, sidebar, leak, libVars, typingUsers, typist>>

\* One second passes; a due timeout fires before more time passes.
Tick ==
  /\ idle <= IdleWindow
  /\ typist.timer < IdleWindow
  /\ idle' = idle + 1
  /\ typist' = IF typist.timer >= 0 THEN [typist EXCEPT !.timer = @ + 1] ELSE typist
  /\ UNCHANGED <<dbVars, rpc, msgVars, cwVars, histVars, libVars, typing_status, typingUsers,
                 chanTyping, heard>>

\* The handler of channel `typing:<chatId>`
TypingUsersAfter(prev, uid, new) ==
  IF new.user_id # uid
    THEN IF new.is_typing THEN prev \cup {new.user_id} ELSE prev \ {new.user_id}
    ELSE prev

\* The event at the head of the typing channel is dispatched.
TypingDeliver ==
  /\ chanTyping # <<>>
  /\ chanTyping' = Tail(chanTyping)
  /\ typingUsers' = IF cw.mounted /\ TypingSelectPolicy(cw.user, Head(chanTyping).chat_id)
                      THEN TypingUsersAfter(typingUsers, cw.user, Head(chanTyping))
                      ELSE typingUsers
  /\ UNCHANGED <<dbVars, rpc, msgVars, cwVars, histVars, libVars, typing_status, typist, idle,
                 heard>>

-----------------------------------------------------------------------------
(* update_typing_status called by any client; useTyping presence channel *)

\* supabase.rpc('update_typing_status', {p_chat_id, p_is_typing}) by user uid:
\* the function is SECURITY DEFINER and upserts the row of (p_chat_id, auth.uid()).
RpcUpdateTypingStatus(uid, c, isTyping) ==
  LET row == [chat_id |-> c, user_id |-> uid, is_typing |-> isTyping]
  IN /\ \E x \in chats : x.id = c
     /\ Len(chanTyping) < MaxTypingEvents
     /\ typing_status' =
          {r \in typing_status : ~(r.chat_id = c /\ r.user_id = uid)} \cup {row}
     /\ chanTyping' = IF cw.mounted /\ cw.chatId = c THEN Append(chanTyping, row)
                                                     ELSE chanTyping
     /\ UNCHANGED <<dbVars, rpc, msgVars, cwVars, histVars, libVars, typingUsers,
                    typist, idle, heard>>

\* The keys of the presence state. supabase.channel(`typing-${chatId}`) is created
\* without a presence key, so the key of a client is not chosen by the code.
PresenceKeys == FriendUsers \cup {"k1", "k2"}

NoPresence == [user_id |-> "none", typing |-> FALSE]

\* The presence key under which the client of user u is tracked, if any.
KeysOf(u) == {k \in PresenceKeys : presenceState[k].user_id = u}

\* startTyping / stopTyping: channel.track({user_id: userId, typing, timestamp})
Track(u, k, typing) ==
  /\ KeysOf(u) \subseteq {k}
  /\ presenceState[k].user_id \in {"none", u}
  /\ presenceState' = [presenceState EXCEPT ![k] = [user_id |-> u, typing |-> typing]]
  /\ UNCHANGED <<dbVars, rpc, msgVars, cwVars, histVars, typVars, presenceUsers,
                 grpVars, readVars, retryVars, moreVars>>

\* Object.keys(state).filter(key => key !== userId && state[key][0]?.typing)
\*   .map(key => state[key][0]?.user_id).filter(Boolean)
PresenceTyping(state, userId) ==
  {state[k].user_id : k \in {key \in DOMAIN state :
                               /\ key # userId
                               /\ state[key].typing
                               /\ state[key].user_id # "none"}}

\* The 'presence' sync handler of useTyping in the mounted ChatWindow
PresenceSync ==
  /\ cw.mounted
  /\ presenceUsers' = PresenceTyping(presenceState, cw.user)
  /\ UNCHANGED <<dbVars, rpc, msgVars, cwVars, histVars, typVars, presenceState,
                 grpVars, readVars, retryVars, moreVars>>

-----------------------------------------------------------------------------
(* CreateGroupModal: createGroup *)

NoGroup == [pc |-> "idle", user |-> "none", chat |-> 0, friends |-> {}]

\* POLICY "Users can create group chats": auth.uid() = created_by
CreateGroupChatsPolicy(uid, created_by) == uid = created_by

\* First request of createGroup: the guards on the form, then
\* supabase.from('chats').insert({type: 'group', ..., created_by: user.id}),
\* which fires on_chat_created.
CreateGroupInsertChat(u, selectedFriends) ==
  /\ grp.pc = "idle"
  /\ selectedFriends # {}
  /\ Cardinality(selectedFriends) <= 19
  /\ Cardinality(chats) < MaxChats
  /\ CreateGroupChatsPolicy(u, u)
  /\ chats' = chats \cup {[id |-> NewChatId, type |-> "group"]}
  /\ chat_members' = chat_members \cup {HandleNewChat(NewChatId, u)}
  /\ chat_membership_cache' = RefreshedCache(chat_members')
  /\ grp' = [pc |-> "admin", user |-> u, chat |-> NewChatId, friends |-> selectedFriends]
  /\ UNCHANGED <<group_invitations, friendVars, rpc, msgVars, cwVars, histVars,
                 typVars, presVars, grpToast, readVars, retryVars, moreVars>>

\* The rest of createGroup: insert the creator as admin and, if that succeeds,
\* insert the invitations; any error is caught and only shown as a toast.
CreateGroupAddAdmin ==
  LET row == [chat_id |-> grp.chat, user_id |-> grp.user, role |-> "admin"]
  IN /\ grp.pc = "admin"
     /\ grp' = NoGroup
     /\ IF ChatMembersInsertAllowed(grp.user, row) /\ ChatMembersUnique(row)
          THEN /\ chat_members' = chat_members \cup {row}
               /\ chat_membership_cache' = RefreshedCache(chat_members')
               /\ group_invitations' = group_invitations \cup
                     {[chat_id |-> grp.chat, invitee_id |-> f, status |-> "pending"] :
                        f \in grp.friends}
               /\ grpToast' = "Group created and invitations sent!"
          ELSE /\ grpToast' = "Failed to create group"
               /\ UNCHANGED <<chat_members, chat_membership_cache, group_invitations>>
     /\ UNCHANGED <<chats, friendVars, rpc, msgVars, cwVars, histVars, typVars, presVars,
                   readVars, retryVars, moreVars>>

-----------------------------------------------------------------------------
(* The ordered messages query of fetchMessages and pollForNewMessages *)

\* created_at TIMESTAMPTZ NOT NULL DEFAULT now(): two rows can carry the same value.
StoreMessage(t) ==
  /\ Cardinality(msgRows) < MaxRows
  /\ msgRows' = msgRows \cup {[id |-> Cardinality(msgRows) + 1, created_at |-> t]}
  /\ returned' = returned \cup UNION {{r[i].id : i \in 1..Len(r)} : r \in Range(reads)}
  /\ reads' = <<>>
  /\ UNCHANGED <<dbVars, rpc, msgVars, cwVars, histVars, typVars, presVars, grpVars,
                 retryVars, moreVars>>

\* .eq('chat_id', chatId).order('created_at', { ascending: true }): every row of
\* the chat, ascending by created_at; the query names no other sort key, so the
\* order of rows with equal created_at is whatever the executor produces.
OrderByCreatedAt(rows) ==
  {r \in [1..Cardinality(rows) -> rows] :
     /\ \A i, j \in DOMAIN r : i # j => r[i] # r[j]
     /\ \A i, j \in DOMAIN r : i < j => r[i].created_at <= r[j].created_at}

\* One execution of the query, by the initial load or by the poll.
ReadMessages ==
  /\ Len(reads) < MaxReads
  /\ \E r \in OrderByCreatedAt(msgRows) : reads' = Append(reads, r)
  /\ UNCHANGED <<dbVars, rpc, msgVars, cwVars, histVars, typVars, presVars, grpVars,
                 msgRows, returned, retryVars, moreVars>>

-----------------------------------------------------------------------------
(* lib/supabase.ts: queryWithRetry(queryFn, maxRetries, delay) *)

Terminal == {"Forbidden", "NotFound", "Conflict", "CapacityExceeded"}
Transient == {"TransientIO"}
Errors == Terminal \cup Transient

Delays == {DefaultDelay \div 2, DefaultDelay}

NoQuery == [pc |-> "idle", maxRetries |-> 0, delay |-> 0, retries |-> 0,
            lastError |-> "undefined", data |-> "none", error |-> "none"]

\* while (retries < maxRetries) { ... } return { data: null, error: lastError }
Loop(q) ==
  IF q.retries < q.maxRetries
    THEN [q EXCEPT !.pc = "queryFn"]
    ELSE [q EXCEPT !.pc = "returned", !.data = "null", !.error = q.lastError]

QueryWithRetryCall(maxRetries, delay) ==
  /\ qr.pc = "idle"
  /\ qr' = Loop([NoQuery EXCEPT !.maxRetries = maxRetries, !.delay = delay])
  /\ UNCHANGED <<dbVars, rpc, msgVars, cwVars, histVars, typVars, presVars, grpVars,
                 readVars, attempts, waits, moreVars>>

\* Mutant: the same delay before every attempt.
BackoffDelay_Constant(delay, retries) == delay

\* setTimeout(resolve, delay * retries)
BackoffDelay(delay, retries) == delay * retries

\* await queryFn() settles: a result without error is returned; an error result
\* is thrown and, like an exception of queryFn, handled by the catch block.
QueryFnSettles(error) ==
  /\ qr.pc = "queryFn"
  /\ attempts' = Append(attempts, error)
  /\ qr' = IF error = "none"
             THEN [qr EXCEPT !.pc = "returned", !.data = "rows", !.error = "none"]
             ELSE IF qr.retries + 1 < qr.maxRetries
               THEN [qr EXCEPT !.pc = "wait", !.lastError = error,
                               !.retries = qr.retries + 1]
               ELSE Loop([qr EXCEPT !.lastError = error, !.retries = qr.retries + 1])
  /\ UNCHANGED <<dbVars, rpc, msgVars, cwVars, histVars, typVars, presVars, grpVars,
                 readVars, waits, moreVars>>

\* The timeout of the catch block fires and the loop goes on.
BackoffElapsed ==
  /\ qr.pc = "wait"
  /\ waits' = Append(waits, BackoffDelay(qr.delay, qr.retries))
  /\ qr' = Loop(qr)
  /\ UNCHANGED <<dbVars, rpc, msgVars, cwVars, histVars, typVars, presVars, grpVars,
                 readVars, attempts, moreVars>>

-----------------------------------------------------------------------------
(* ChatWindow: the message form and the load-error state *)

Chars == {" ", "h"}

Drafts == UNION {[1..n -> Chars] : n \in 0..MaxDraft}

RECURSIVE TrimStart(_)
TrimStart(t) == IF t # <<>> /\ Head(t) = " " THEN TrimStart(Tail(t)) ELSE t

RECURSIVE TrimEnd(_)
TrimEnd(t) ==
  IF t # <<>> /\ t[Len(t)] = " " THEN TrimEnd(SubSeq(t, 1, Len(t) - 1)) ELSE t

\* String.prototype.trim
Trim(t) == TrimEnd(TrimStart(t))

\* Mutant: only the empty draft is refused.
IsBlank_EmptyOnly(text) == text = <<>>

\* if (!newMessage.trim() || !user) return;
IsBlank(text) == Trim(text) = <<>>

NoForm == [pc |-> "idle", draft |-> <<>>, sending |-> FALSE, last |-> "none",
           submitted |-> <<>>]

\* handleSendMessage up to its await: newMessage holds `text` when the form is
\* submitted; a blank draft returns at once, otherwise setSending(true) and
\* the insert is sent.
SendMessageSubmit(text) ==
  /\ cw.mounted
  /\ form.pc = "idle"
  /\ form' = IF IsBlank(text)
               THEN [form EXCEPT !.draft = text, !.last = "none"]
               ELSE [pc |-> "insert", draft |-> text, sending |-> TRUE,
                     last |-> "none", submitted |-> text]
  /\ UNCHANGED <<dbVars, rpc, msgVars, cwVars, histVars, typVars, presVars, grpVars,
                 readVars, retryVars, fwdVars, loadError, infoPc, sentContents, sendFailed,
                 loadFailed>>

\* handleSendMessage from its await on: the insert runs on the server; on
\* success setNewMessage('') and updateTypingStatus(false), on error the toast;
\* finally setSending(false).
SendMessageSettle ==
  LET ok == MessagesInsertAllowed(cw.user,
              [id |-> msgCount + 1, chat_id |-> cw.chatId, sender_id |-> cw.user])
  IN /\ form.pc = "insert"
     /\ cw.mounted
     /\ InsertMessageRows(cw.user, cw.chatId, cw.user)
     /\ sendFailed' = (sendFailed \/ ~ok)
     /\ IF ok
          THEN /\ form' = [form EXCEPT !.pc = "idle", !.draft = <<>>,
                                       !.sending = FALSE, !.last = "ok"]
               /\ sentContents' = sentContents \cup {Trim(form.draft)}
               /\ UpdateTypingStatus(cw.user, cw.chatId, FALSE)
               /\ UNCHANGED toast
          ELSE /\ form' = [form EXCEPT !.pc = "idle", !.sending = FALSE,
                                       !.last = "failed"]
               /\ toast' = "Failed to send message"
               /\ UNCHANGED <<sentContents, typing_status, chanTyping, heard, idle>>
     /\ UNCHANGED <<dbVars, rpc, cw, cwMessages, fetch, poll, pendingProfile,
                    pendingFetch, dupCount, del, sidebar, leak, typingUsers, typist,
                    presVars, grpVars, readVars, retryVars, fwdVars, loadError, infoPc,
                    loadFailed>>

\* fetchChatInfo, awaited by fetchMessages before its query: the chats row is
\* read with .single(), which is an error when the row is not visible; the
\* catch block sets the error state.
FetchChatInfo ==
  /\ cw.mounted
  /\ fetch.state = "pending"
  /\ infoPc = "todo"
  /\ infoPc' = "done"
  /\ loadError' = IF ChatsSelectPolicy(cw.user, cw.chatId)
                    THEN loadError ELSE "Failed to load chat information"
  /\ loadFailed' = (loadFailed \/ ~ChatsSelectPolicy(cw.user, cw.chatId))
  /\ UNCHANGED <<dbVars, rpc, msgVars, cwVars, histVars, typVars, presVars, grpVars,
                 readVars, retryVars, fwdVars, form, sentContents, sendFailed>>

-----------------------------------------------------------------------------
(* ChatWindow: handleForwardToFriend *)

NoForward == [pc |-> "idle", slot |-> 0, chatId |-> 0, pending |-> {}]

\* forwardMessages: the selected messages, named by their place in the source chat
ForwardMessages == 1..MaxFwd

\* memberIds.includes(user.id) && memberIds.includes(friend.id) && memberIds.length === 2
ForwardChats(u, friend) ==
  {c.id : c \in {x \in chats : /\ x.type = "direct"
                               /\ ChatsSelectPolicy(u, x.id)
                               /\ Members(x.id) = {u, friend}
                               /\ Cardinality(Members(x.id)) = 2}}

\* handleForwardToFriend: the direct chats are read; the first one with exactly
\* the two users is taken, otherwise create_direct_chat is called. With a chat
\* id the inserts of all the selected messages are sent at once (Promise.all).
ForwardStart(friend, k) ==
  /\ cw.mounted
  /\ fwd.pc = "idle"
  /\ IF ForwardChats(cw.user, friend) # {}
       THEN /\ \E c \in ForwardChats(cw.user, friend) :
                 fwd' = [pc |-> "inserts", slot |-> 0, chatId |-> c,
                         pending |-> ForwardMessages]
            /\ UNCHANGED rpc
       ELSE /\ RpcCreateDirectChat(k, cw.user, cw.user, friend)
            /\ fwd' = [pc |-> "create", slot |-> k, chatId |-> 0, pending |-> {}]
  /\ UNCHANGED <<dbVars, msgVars, cwVars, histVars, typVars, presVars, grpVars,
                 readVars, retryVars, formVars, fwdOrder>>

\* The answer of create_direct_chat: an error ends the handler with a toast.
ForwardCreated ==
  /\ fwd.pc = "create"
  /\ rpc[fwd.slot].pc = "done"
  /\ rpc' = [rpc EXCEPT ![fwd.slot] = NoCall]
  /\ IF rpc[fwd.slot].error # "none"
       THEN /\ toast' = "Failed to create chat"
            /\ fwd' = NoForward
       ELSE /\ fwd' = [pc |-> "inserts", slot |-> 0, chatId |-> rpc[fwd.slot].result,
                       pending |-> ForwardMessages]
            /\ UNCHANGED toast
  /\ UNCHANGED <<dbVars, msgVars, cw, cwMessages, fetch, poll, chanVars, del, sidebar,
                 histVars, typVars, presVars, grpVars, readVars, retryVars, formVars,
                 fwdOrder>>

\* The insert of one of the selected messages reaches the server; the requests
\* were sent together, so they are served in any order.
ForwardInsert(m) ==
  /\ fwd.pc = "inserts"
  /\ m \in fwd.pending
  /\ InsertMessageRows(cw.user, fwd.chatId, cw.user)
  /\ fwdOrder' = IF MessagesInsertAllowed(cw.user,
                      [id |-> msgCount + 1, chat_id |-> fwd.chatId, sender_id |-> cw.user])
                   THEN Append(fwdOrder, m) ELSE fwdOrder
  /\ fwd' = [fwd EXCEPT !.pending = fwd.pending \ {m}]
  /\ UNCHANGED <<dbVars, rpc, cw, cwMessages, fetch, poll, pendingProfile, pendingFetch,
                 dupCount, del, toast, sidebar, leak, typVars, presVars, grpVars,
                 readVars, retryVars, formVars>>

\* Promise.all has resolved: the selection is cleared and the toast is shown.
ForwardDone ==
  /\ fwd.pc = "inserts"
  /\ fwd.pending = {}
  /\ fwd' = [fwd EXCEPT !.pc = "done"]
  /\ toast' = "Messages forwarded!"
  /\ UNCHANGED <<dbVars, rpc, msgVars, cw, cwMessages, fetch, poll, chanVars, del,
                 sidebar, histVars, typVars, presVars, grpVars, readVars, retryVars,
                 formVars, fwdOrder>>

-----------------------------------------------------------------------------
Init ==
  /\ chats = {}
  /\ chat_members = {}
  /\ chat_membership_cache = {}
  /\ group_invitations = {}
  /\ friend_requests = {}
  /\ friendships = {}
  /\ rpc = [k \in Slots |-> NoCall]
  /\ messages = <<>>
  /\ msgCount = 0
  /\ sendLog = {}
  /\ cw = NoWindow
  /\ cwMessages = <<>>
  /\ fetch = [state |-> "idle", rows |-> <<>>]
  /\ poll = [busy |-> FALSE, rows |-> <<>>]
  /\ chanMessages = <<>>
  /\ chanRealtime = <<>>
  /\ pendingProfile = <<>>
  /\ pendingFetch = <<>>
  /\ dupCount = 0
  /\ del = NoDelete
  /\ toast = "none"
  /\ sidebar = {}
  /\ sinceRemoval = {}
  /\ leak = FALSE
  /\ typing_status = {}
  /\ typingUsers = {}
  /\ chanTyping = <<>>
  /\ typist = NoTypist
  /\ idle = 0
  /\ heard = FALSE
  /\ presenceState = [k \in PresenceKeys |-> NoPresence]
  /\ presenceUsers = {}
  /\ grp = NoGroup
  /\ grpToast = "none"
  /\ msgRows = {}
  /\ reads = <<>>
  /\ returned = {}
  /\ qr = NoQuery
  /\ attempts = <<>>
  /\ waits = <<>>
  /\ form = NoForm
  /\ loadError = "none"
  /\ infoPc = "todo"
  /\ sentContents = {}
  /\ sendFailed = FALSE
  /\ loadFailed = FALSE
  /\ fwd = NoForward
  /\ fwdOrder = <<>>

\* Concurrent create_direct_chat calls by any user, and users adding and
\* removing their own chat_members rows.
Next ==
  \/ \E k \in Slots, caller \in Users, u1, u2 \in FriendUsers :
       CreateDirectChatCall(k, caller, u1, u2)
  \/ \E k \in Slots : CreateDirectChatSelect(k)
  \/ \E k \in Slots : CreateDirectChatInsert(k)
  \/ \E u \in Users \ FriendUsers, c \in 1..MaxChats : InsertChatMember(u, c, u)
  \/ \E u \in Users \ FriendUsers, c \in 1..MaxChats : DeleteChatMember(u, c, u)
  \/ \E k \in Slots : RpcReturn(k)

Spec == Init /\ [][Next]_vars

\* Concurrent sendFriendRequest and handle_friend_request calls.
NextFriends ==
  \/ \E k \in Slots, u1, u2 \in FriendUsers : SendFriendRequestCall(k, u1, u2)
  \/ \E k \in Slots : SendFriendRequestCheckRequest(k)
  \/ \E k \in Slots : SendFriendRequestCheckFriendship(k)
  \/ \E k \in Slots : SendFriendRequestInsert(k)
  \/ \E k \in Slots, caller \in Users, s, r \in FriendUsers, acc \in BOOLEAN :
       HandleFriendRequestCall(k, caller, s, r, acc)
  \/ \E k \in Slots : HandleFriendRequestUpdate(k)
  \/ \E k \in Slots : HandleFriendRequestCheck(k)
  \/ \E k \in Slots : HandleFriendRequestInsert(k)
  \/ \E k \in Slots : RpcReturn(k)

SpecFriends == Init /\ [][NextFriends]_vars

-----------------------------------------------------------------------------
(* Direct chats and friendships under concurrent calls (Spec, SpecFriends) *)

FinishedCreateDirectChat(k) ==
  /\ rpc[k].op = "create_direct_chat"
  /\ rpc[k].pc = "done"
  /\ rpc[k].error = "none"

SamePair(i, j) == {rpc[i].a1, rpc[i].a2} = {rpc[j].a1, rpc[j].a2}

\* C1: calls of create_direct_chat for a pair of users that had no direct chat
\* when they were invoked all return the same chat id, and the pair has exactly
\* one direct chat afterwards.
C1_ConcurrentCreateReturnsOneChat ==
  \A i, j \in Slots :
    ( /\ FinishedCreateDirectChat(i) /\ rpc[i].fresh
      /\ FinishedCreateDirectChat(j) /\ rpc[j].fresh
      /\ SamePair(i, j) )
    => /\ rpc[i].result = rpc[j].result
       /\ Cardinality(DirectChatsOf(rpc[i].a1, rpc[i].a2)) = 1

\* C2: a direct chat never has more than two chat_members rows.
C2_DirectChatAtMostTwoMembers ==
  \A c \in chats : c.type = "direct" => Cardinality(Members(c.id)) <= 2

\* C5: once a request between two users is accepted there is exactly one
\* friendships row for the unordered pair.
C5_OneFriendshipPerPair ==
  \A q \in friend_requests :
    q.status = "accepted" =>
      Cardinality(FriendshipsBetween(q.sender_id, q.receiver_id)) = 1

-----------------------------------------------------------------------------
(* The friend-request scenario, one call at a time (specification SpecSeq) *)

Quiet == \A k \in Slots : rpc[k].pc \in {"idle", "done"}

NextSeq ==
  \/ \E k \in Slots, u1, u2 \in FriendUsers : Quiet /\ SendFriendRequestCall(k, u1, u2)
  \/ \E k \in Slots : SendFriendRequestCheckRequest(k)
  \/ \E k \in Slots : SendFriendRequestCheckFriendship(k)
  \/ \E k \in Slots : SendFriendRequestInsert(k)
  \/ \E k \in Slots, s, r \in FriendUsers, acc \in BOOLEAN :
       Quiet /\ HandleFriendRequestCall(k, r, s, r, acc)
  \/ \E k \in Slots : HandleFriendRequestUpdate(k)
  \/ \E k \in Slots : HandleFriendRequestCheck(k)
  \/ \E k \in Slots : HandleFriendRequestInsert(k)
  \/ \E k \in Slots, u1, u2 \in Users : Quiet /\ CreateDirectChatCall(k, u1, u1, u2)
  \/ \E k \in Slots : CreateDirectChatSelect(k)
  \/ \E k \in Slots : CreateDirectChatInsert(k)
  \/ \E k \in Slots : RpcReturn(k)

SpecSeq == Init /\ [][NextSeq]_vars

AcceptedBetween(a, b) ==
  \E q \in RequestsBetween(a, b) : q.status = "accepted"

\* The request from s to r exists or existed when call k looked for it.
ReceiverAccepted(k) ==
  /\ rpc[k].op = "handle_friend_request"
  /\ rpc[k].pc = "done"
  /\ rpc[k].accept
  /\ rpc[k].caller = rpc[k].a2
  /\ rpc[k].error # "not_found"

\* C6: when B accepts A's request the call succeeds, the request's status is
\* accepted and there is exactly one friendships row for {A,B}; after that
\* create_direct_chat(A,B) returns a direct chat whose members are exactly A and B.
C6_AcceptGivesFriendshipAndDirectChat ==
  /\ \A k \in Slots :
       ReceiverAccepted(k) =>
         /\ rpc[k].error = "none"
         /\ AcceptedBetween(rpc[k].a1, rpc[k].a2)
         /\ Cardinality(FriendshipsBetween(rpc[k].a1, rpc[k].a2)) = 1
  /\ \A k \in Slots :
       ( /\ rpc[k].op = "create_direct_chat" /\ rpc[k].pc = "done"
         /\ rpc[k].a1 # rpc[k].a2
         /\ AcceptedBetween(rpc[k].a1, rpc[k].a2) )
       => /\ rpc[k].error = "none"
          /\ \E c \in chats : /\ c.id = rpc[k].result
                              /\ c.type = "direct"
                              /\ Members(c.id) = {rpc[k].a1, rpc[k].a2}

\* C14: called one after another, create_direct_chat(u1,u2) by u1 succeeds, the
\* chat it returns is the only direct chat of the two users and has exactly the
\* members u1 and u2, and a later call for (u1,u2) or (u2,u1) returns the same id.
C14_SequentialCreateIsIdempotent ==
  \A k \in Slots :
    ( /\ rpc[k].op = "create_direct_chat" /\ rpc[k].pc = "done"
      /\ rpc[k].a1 # rpc[k].a2 )
    => /\ rpc[k].error = "none"
       /\ DirectChatsOf(rpc[k].a1, rpc[k].a2) = {rpc[k].result}
       /\ Members(rpc[k].result) = {rpc[k].a1, rpc[k].a2}

-----------------------------------------------------------------------------
(* Messages (specifications SpecMsg, SpecWin) *)

\* The messages of one direct chat between A and B: joins, leaves, sends, deletes.
NextMsg ==
  \/ chats = {} /\ CreateDirectChatCall(1, "C", "A", "B")
  \/ CreateDirectChatSelect(1)
  \/ CreateDirectChatInsert(1)
  \/ RpcReturn(1)
  \/ \E u \in Users, c \in 1..MaxChats : InsertChatMember(u, c, u)
  \/ \E u \in Users, c \in 1..MaxChats : DeleteChatMember(u, c, u)
  \/ \E u, sender \in Users, c \in 1..MaxChats : RestInsertMessage(u, c, sender)
  \/ \E u \in Users, id \in 1..MaxMsgs : RestDeleteMessage(u, id)

SpecMsg == Init /\ [][NextMsg]_vars

\* C3: every accepted messages insert was made by the row's sender while the
\* sender was a member of the chat, and every stored row comes from such an insert.
C3_SenderWasMemberAtAppend ==
  /\ \A e \in sendLog : e.uid = e.sender_id /\ e.member
  /\ \A i \in 1..Len(messages) :
       \E e \in sendLog : /\ e.id = messages[i].id
                          /\ e.sender_id = messages[i].sender_id
                          /\ e.chat_id = messages[i].chat_id

\* A message is stored whose sender has left the chat since.
C3_Witness ==
  \E i \in 1..Len(messages) :
    messages[i].sender_id \notin Members(messages[i].chat_id)

\* C13: after every committed change of chat_members the membership cache holds
\* exactly the (chat_id, user_id) pairs of chat_members, so the messages policies
\* that read the cache decide as chat_members would.
C13_CacheEqualsChatMembers ==
  /\ chat_membership_cache =
       {[chat_id |-> m.chat_id, user_id |-> m.user_id] : m \in chat_members}
  /\ \A u \in Users, c \in 1..MaxChats :
       /\ MessagesSelectPolicy(u, c) <=> u \in Members(c)
       /\ \A sender \in Users :
            InsertMessagesPolicy(u, [id |-> 0, chat_id |-> c, sender_id |-> sender])
              <=> SendMessagesPolicy(u, [id |-> 0, chat_id |-> c, sender_id |-> sender])

\* A became a member by create_direct_chat and left; C is a member.
C13_Witness ==
  \E c \in chats : "A" \notin Members(c.id) /\ "C" \in Members(c.id)

\* The ChatWindow of A or B on their direct chat: load, poll, send and delete.
NextWin ==
  \/ chats = {} /\ CreateDirectChatCall(1, "C", "A", "B")
  \/ CreateDirectChatSelect(1)
  \/ CreateDirectChatInsert(1)
  \/ RpcReturn(1)
  \/ \E u \in Users, c \in 1..MaxChats : OpenChat(u, c)
  \/ \E u \in Users, c \in 1..MaxChats : RestInsertMessage(u, c, u)
  \/ FetchQuery
  \/ FetchApply
  \/ PollQuery
  \/ PollApply
  \/ HandleSendMessage
  \/ \E i \in 1..MaxMsgs : DeleteMessageRequest(i)
  \/ DeleteMessageResponse
  \/ DeleteAllMessages

SpecWin == Init /\ [][NextWin]_vars

NextRt ==
  \/ chats = {} /\ CreateDirectChatCall(1, "C", "A", "B")
  \/ CreateDirectChatSelect(1)
  \/ CreateDirectChatInsert(1)
  \/ RpcReturn(1)
  \/ \E c \in 1..MaxChats : OpenChat("A", c)
  \/ \E c \in 1..MaxChats : DeleteChatMember("A", c, "A")
  \/ \E c \in 1..MaxChats : InsertChatMember("A", c, "A")
  \/ \E c \in 1..MaxChats : msgCount < MaxPush /\ RestInsertMessage("B", c, "B")
  \/ \E id \in 1..MaxMsgs : RestDeleteMessage("B", id)
  \/ FetchQuery
  \/ FetchApply
  \/ PollQuery
  \/ PollApply
  \/ \E q \in Channels : Deliver(q)
  \/ \E q \in Channels : Duplicate(q)
  \/ \E q \in Channels : Lose(q)
  \/ \E i \in 1..(MaxMsgs + MaxDup) : ProfileFetched(i)
  \/ \E i \in 1..(MaxMsgs + MaxDup) : MessageFetched(i)
  \/ SidebarFetchChats

SpecRt == Init /\ [][NextRt]_vars

ShownIds == {cwMessages[i].id : i \in 1..Len(cwMessages)} \cup sidebar

C8_NoDuplicateIds ==
  \A i, j \in 1..Len(cwMessages) :
    i # j => cwMessages[i].id # cwMessages[j].id

-----------------------------------------------------------------------------
(* The ChatWindow while the push channel loses events (specification SpecLive) *)

NextLive ==
  \/ chats = {} /\ CreateDirectChatCall(1, "C", "A", "B")
  \/ CreateDirectChatSelect(1)
  \/ CreateDirectChatInsert(1)
  \/ RpcReturn(1)
  \/ \E c \in 1..MaxChats : OpenChat("A", c)
  \/ \E c \in 1..MaxChats : msgCount < MaxPush /\ RestInsertMessage("B", c, "B")
  \/ \E id \in 1..MaxMsgs : RestDeleteMessage("B", id)
  \/ FetchQuery
  \/ FetchApply
  \/ PollQuery
  \/ PollApply
  \/ \E q \in Channels : Deliver(q)
  \/ \E q \in Channels : Lose(q)
  \/ \E i \in 1..MaxMsgs : ProfileFetched(i)
  \/ \E i \in 1..MaxMsgs : MessageFetched(i)

\* The poll timer keeps firing, every request in flight is answered and every
\* queued event is either delivered or lost.
SpecLive ==
  /\ Init
  /\ [][NextLive]_vars
  /\ WF_vars(\E q \in Channels : Deliver(q) \/ Lose(q))
  /\ WF_vars(PollQuery)
  /\ WF_vars(PollApply)
  /\ WF_vars(FetchQuery)
  /\ WF_vars(FetchApply)
  /\ WF_vars(\E i \in 1..MaxMsgs : ProfileFetched(i))
  /\ WF_vars(\E i \in 1..MaxMsgs : MessageFetched(i))

\* C9: once writes to the chat have stopped, the poll makes the ChatWindow list
\* equal to the server's list of the chat (same ids in the same order), also when
\* DELETE events were lost.
C9_PollReconcilesList ==
  <>[](cw.mounted => cwMessages = SelectMessages(cw.user, cw.chatId))

-----------------------------------------------------------------------------
(* The typing indicator of A seen by B (specification SpecTyping) *)

NextTyping ==
  \/ chats = {} /\ CreateDirectChatCall(1, "C", "A", "B")
  \/ CreateDirectChatSelect(1)
  \/ CreateDirectChatInsert(1)
  \/ RpcReturn(1)
  \/ \E c \in 1..MaxChats : OpenChat("B", c)
  \/ FetchQuery
  \/ FetchApply
  \/ \E c \in 1..MaxChats : TypistOpen("A", c)
  \/ HandleTyping
  \/ TypingTimeout
  \/ TypistClose
  \/ Tick
  \/ TypingDeliver

SpecTyping == Init /\ [][NextTyping]_vars

\* C10: when A's typing state is true and A has sent no refresh or clear since,
\* B's typing set contains A before the idle window has elapsed and does not
\* contain A after it has elapsed.
C10_TypingExpiresAfterIdleWindow ==
  \A r \in typing_status :
    ( /\ r.is_typing
      /\ cw.mounted /\ cw.chatId = r.chat_id /\ cw.user # r.user_id
      /\ heard /\ chanTyping = <<>> )
    => /\ idle < IdleWindow => r.user_id \in typingUsers
       /\ idle > IdleWindow => r.user_id \notin typingUsers

-----------------------------------------------------------------------------
(* Typing writes by any user and the two typing displays (specification SpecTypingAll) *)

NextTypingAll ==
  \/ chats = {} /\ CreateDirectChatCall(1, "C", "A", "B")
  \/ CreateDirectChatSelect(1)
  \/ CreateDirectChatInsert(1)
  \/ RpcReturn(1)
  \/ \E c \in 1..MaxChats : DeleteChatMember("C", c, "C")
  \/ \E c \in 1..MaxChats : OpenChat("B", c)
  \/ \E u \in Users, c \in 1..MaxChats, b \in BOOLEAN : RpcUpdateTypingStatus(u, c, b)
  \/ TypingDeliver
  \/ \E u \in FriendUsers, k \in PresenceKeys, b \in BOOLEAN : Track(u, k, b)
  \/ PresenceSync

SpecTypingAll == Init /\ [][NextTypingAll]_vars

\* C11: update_typing_status by a user who is not a member of the chat fails and
\* writes nothing: every typing_status row belongs to a member of its chat.
C11_TypingRowsOnlyOfMembers ==
  \A r \in typing_status : r.user_id \in Members(r.chat_id)

\* C12: the typing set a client holds never contains the client's own user id,
\* neither in the typing_status handler nor in the presence sync handler.
C12_TypingSetExcludesSelf ==
  cw.mounted => cw.user \notin typingUsers /\ cw.user \notin presenceUsers

-----------------------------------------------------------------------------
(* Group chats: createGroup and members leaving *)

NextGroup ==
  \/ \E u \in Users : \E f \in Users \ {u} : CreateGroupInsertChat(u, {f})
  \/ CreateGroupAddAdmin
  \/ \E u \in Users : \E c \in 1..MaxChats : InsertChatMember(u, c, u)
  \/ \E u \in Users : \E c \in 1..MaxChats : DeleteChatMember(u, c, u)

SpecGroup == Init /\ [][NextGroup]_vars

Admins(c) == {m.user_id : m \in {x \in chat_members : x.chat_id = c /\ x.role = "admin"}}

\* C15: every existing group chat has at least one member and at least one
\* member with role admin, after createGroup (whether or not its later steps
\* fail) and after any member, the only admin included, deletes their own row.
C15_GroupHasMemberAndAdmin ==
  \A c \in chats : c.type = "group" => Members(c.id) # {} /\ Admins(c.id) # {}

-----------------------------------------------------------------------------
(* Order of the pushed messages in the ChatWindow *)

\* The ChatWindow of A on the chat with B while B writes two messages and the
\* two subscriptions deliver their events in order.
NextOrder ==
  \/ chats = {} /\ CreateDirectChatCall(1, "C", "A", "B")
  \/ CreateDirectChatSelect(1)
  \/ CreateDirectChatInsert(1)
  \/ RpcReturn(1)
  \/ \E c \in 1..MaxChats : OpenChat("A", c)
  \/ \E c \in 1..MaxChats : RestInsertMessage("B", c, "B")
  \/ \E q \in Channels : Deliver(q)
  \/ \E i \in 1..MaxMsgs : ProfileFetched(i)
  \/ \E i \in 1..MaxMsgs : MessageFetched(i)

SpecOrder == Init /\ [][NextOrder]_vars

\* The place of the first entry of the displayed list with that id.
FirstShown(id) ==
  CHOOSE i \in 1..Len(cwMessages) :
    /\ cwMessages[i].id = id
    /\ \A j \in 1..(i - 1) : cwMessages[j].id # id

\* C16: pushed INSERT events are appended in commit order: a message committed
\* before another one is never first shown after it (ids grow in commit order).
C16_PushedMessagesInCommitOrder ==
  \A i, j \in 1..Len(cwMessages) :
    cwMessages[i].id < cwMessages[j].id
      => FirstShown(cwMessages[i].id) < FirstShown(cwMessages[j].id)

-----------------------------------------------------------------------------
(* Reads of a chat's messages *)

NextRead ==
  \/ \E t \in 1..MaxTime : StoreMessage(t)
  \/ ReadMessages

SpecRead == Init /\ [][NextRead]_vars

\* Row a stands before row b in the result r.
Before(r, a, b) ==
  \E i, j \in DOMAIN r : i < j /\ r[i] = a /\ r[j] = b

\* C17: two messages of the chat with equal created_at come back in the same
\* relative order from every read of an unchanged store.
C17_TiesReadInStableOrder ==
  \A i, j \in 1..Len(reads) : \A a, b \in msgRows :
    a.created_at = b.created_at => (Before(reads[i], a, b) <=> Before(reads[j], a, b))

ReadIds(r) == {r[i].id : i \in DOMAIN r}

\* C18: reading is idempotent and monotonic: reads with no write in between
\* return the same sequence, and a read taken after the reader has advanced past
\* earlier results returns none of the messages returned before.
C18_ReadsIdempotentAndMonotonic ==
  /\ \A i, j \in 1..Len(reads) : reads[i] = reads[j]
  /\ \A i \in 1..Len(reads) : ReadIds(reads[i]) \cap returned = {}

-----------------------------------------------------------------------------
(* queryWithRetry *)

NextRetry ==
  \/ \E n \in 1..MaxRetriesArg : \E d \in Delays : QueryWithRetryCall(n, d)
  \/ \E e \in {"none"} \cup Errors : QueryFnSettles(e)
  \/ BackoffElapsed

SpecRetry == Init /\ [][NextRetry]_vars

\* queryFn settles and the timer fires.
SpecRetryLive ==
  /\ SpecRetry
  /\ WF_vars(\E e \in {"none"} \cup Errors : QueryFnSettles(e))
  /\ WF_vars(BackoffElapsed)

\* C19: queryFn is never invoked again after it returned a terminal error:
\* every attempt but the last one ended with a transient failure.
C19_TerminalErrorNotRetried ==
  \A i \in 1..(Len(attempts) - 1) : attempts[i] \notin Terminal

RetryBounded ==
  /\ Len(attempts) <= qr.maxRetries
  /\ \A i \in 1..(Len(attempts) - 1) : attempts[i] # "none"
  /\ \A k \in 1..Len(waits) : waits[k] = qr.delay * k
  /\ qr.pc = "queryFn" => Len(waits) = Len(attempts)
  /\ qr.pc = "wait" => Len(waits) = Len(attempts) - 1
  /\ qr.pc = "returned" =>
       /\ attempts # <<>>
       /\ Len(waits) = Len(attempts) - 1
       /\ IF attempts[Len(attempts)] = "none"
            THEN qr.data = "rows" /\ qr.error = "none"
            ELSE /\ Len(attempts) = qr.maxRetries
                 /\ qr.data = "null"
                 /\ qr.error = attempts[Len(attempts)]

\* C20: for maxRetries >= 1 queryWithRetry terminates; it invokes queryFn at
\* most maxRetries times, returns the first success without another invocation,
\* returns {data: null, error: e} of the last attempt after maxRetries failures,
\* waits delay*k before attempt k+1 and does not wait after the final failure.
C20_QueryWithRetryTerminates ==
  /\ []RetryBounded
  /\ (qr.pc # "idle") ~> (qr.pc = "returned")

\* Three failed attempts with the two waits between them.
C20_Witness ==
  /\ qr.pc = "returned"
  /\ qr.maxRetries = 3
  /\ Len(attempts) = 3
  /\ qr.data = "null"
  /\ waits = <<qr.delay, 2 * qr.delay>>

-----------------------------------------------------------------------------
(* The ChatWindow when the selected chat changes *)

\* A is in the direct chat with B and in a group of its own; B writes to the
\* direct chat while A's ChatWindow goes from one chat to the other.
NextSwitch ==
  \/ chats = {} /\ CreateDirectChatCall(1, "C", "A", "B")
  \/ CreateDirectChatSelect(1)
  \/ CreateDirectChatInsert(1)
  \/ RpcReturn(1)
  \/ Cardinality(chats) = 1 /\ CreateGroupInsertChat("A", {"B"})
  \/ CreateGroupAddAdmin
  \/ Cardinality(chats) = MaxChats /\ OpenChat("A", 1)
  \/ \E c \in 1..MaxChats : SwitchChat(c)
  \/ msgCount < MaxPush /\ RestInsertMessage("B", 1, "B")
  \/ FetchQuery
  \/ FetchApply
  \/ PollQuery
  \/ PollApply
  \/ \E q \in Channels : Deliver(q)
  \/ \E i \in 1..MaxMsgs : ProfileFetched(i)
  \/ \E i \in 1..MaxMsgs : MessageFetched(i)

SpecSwitch == Init /\ [][NextSwitch]_vars

\* C21: after the effect cleanup no callback of the old subscription changes the
\* message list: once the load of the selected chat has been applied, every
\* message in the list belongs to the selected chatId.
C21_ListBelongsToSelectedChat ==
  (cw.mounted /\ fetch.state = "idle")
    => \A i \in 1..Len(cwMessages) : cwMessages[i].chat_id = cw.chatId

-----------------------------------------------------------------------------
(* chat_members: one row per (chat, user) *)

\* C22: chat_members never holds two rows with the same (chat_id, user_id),
\* and no operation of the application needs to insert a pair that is already
\* present: neither createGroup nor an RPC ends with the conflict.
C22_NoOperationReliesOnDuplicatePair ==
  /\ \A m1, m2 \in chat_members :
       (m1.chat_id = m2.chat_id /\ m1.user_id = m2.user_id) => m1 = m2
  /\ grpToast # "Failed to create group"
  /\ \A k \in Slots : rpc[k].error # "unique_violation"

-----------------------------------------------------------------------------
(* Failed sends and failed loads *)

\* A's ChatWindow on the chat with B while A leaves the chat and joins again.
NextForm ==
  \/ chats = {} /\ CreateDirectChatCall(1, "C", "A", "B")
  \/ CreateDirectChatSelect(1)
  \/ CreateDirectChatInsert(1)
  \/ RpcReturn(1)
  \/ \E c \in 1..MaxChats : OpenChat("A", c)
  \/ \E c \in 1..MaxChats : DeleteChatMember("A", c, "A")
  \/ \E c \in 1..MaxChats : InsertChatMember("A", c, "A")
  \/ FetchChatInfo
  \/ infoPc = "done" /\ FetchQuery
  \/ FetchApply
  \/ \E text \in Drafts : SendMessageSubmit(text)
  \/ SendMessageSettle

SpecForm == Init /\ [][NextForm]_vars

\* C23: a failed send raises only the 'Failed to send message' notification,
\* keeps the draft and resets the sending flag, and never sets the load-error
\* state; a failed load sets the load-error state and never raises that
\* notification; a blank draft is never inserted.
C23_SendAndLoadFailuresDistinct ==
  /\ (form.pc = "idle" /\ form.last = "failed")
       => /\ toast = "Failed to send message"
          /\ form.draft = form.submitted
          /\ ~form.sending
  /\ loadError # "none" <=> loadFailed
  /\ toast = "Failed to send message" => sendFailed
  /\ \A t \in sentContents : t # <<>>

\* A send succeeded, the load failed and the latest send failed.
C23_Witness ==
  /\ form.last = "failed"
  /\ loadError # "none"
  /\ sentContents # {}

-----------------------------------------------------------------------------
(* Forwarding *)

\* One of A and B forwards the selected messages to the other; their direct
\* chat was created by C, who may have left it.
NextFwd ==
  \/ chats = {} /\ CreateDirectChatCall(1, "C", "A", "B")
  \/ \E k \in Slots : CreateDirectChatSelect(k)
  \/ \E k \in Slots : CreateDirectChatInsert(k)
  \/ fwd.pc # "create" /\ RpcReturn(1)
  \/ \E c \in 1..MaxChats : DeleteChatMember("C", c, "C")
  \/ \E u \in FriendUsers, c \in 1..MaxChats : OpenChat(u, c)
  \/ FetchQuery
  \/ FetchApply
  \/ \E friend \in FriendUsers \ {cw.user}, k \in Slots : ForwardStart(friend, k)
  \/ ForwardCreated
  \/ \E m \in ForwardMessages : ForwardInsert(m)
  \/ ForwardDone

SpecFwd == Init /\ [][NextFwd]_vars

\* C24: after handleForwardToFriend has completed, the forwarded messages stand
\* in the target chat in the same relative order as in forwardMessages.
C24_ForwardKeepsOrder ==
  fwd.pc = "done" =>
    \A i, j \in 1..Len(fwdOrder) : i < j => fwdOrder[i] < fwdOrder[j]

-----------------------------------------------------------------------------
(* Declining a friend request *)

\* C25: declining a pending friend request (p_accept = false) completes without
\* error, leaves the request with a status other than pending from the set
\* {pending, accepted, declined}, and creates no friendship.
C25_DeclineCompletes ==
  \A k \in Slots :
    ( /\ rpc[k].op = "handle_friend_request"
      /\ rpc[k].pc = "done"
      /\ ~rpc[k].accept
      /\ rpc[k].error # "not_found" )
    => /\ rpc[k].error = "none"
       /\ \A q \in friend_requests :
            (q.sender_id = rpc[k].a1 /\ q.receiver_id = rpc[k].a2)
              => q.status \in AllowedStatus \ {"pending"}
       /\ ~AcceptedBetween(rpc[k].a1, rpc[k].a2)
            => FriendshipsBetween(rpc[k].a1, rpc[k].a2) = {}

-----------------------------------------------------------------------------
(* Who may answer a friend request *)

\* C26: only the receiver of a friend request can change its status or have a
\* friendship created from it: a handle_friend_request call made by the sender
\* or by a third user ends with an error.
C26_OnlyReceiverHandlesRequest ==
  \A k \in Slots :
    ( /\ rpc[k].op = "handle_friend_request"
      /\ rpc[k].pc = "done"
      /\ rpc[k].caller # rpc[k].a2 )
    => rpc[k].error # "none"

-----------------------------------------------------------------------------
(* All the operations that create direct chats *)

NextPair ==
  \/ \E k \in Slots, u1, u2 \in FriendUsers : SendFriendRequestCall(k, u1, u2)
  \/ \E k \in Slots : SendFriendRequestCheckRequest(k)
  \/ \E k \in Slots : SendFriendRequestCheckFriendship(k)
  \/ \E k \in Slots : SendFriendRequestInsert(k)
  \/ \E k \in Slots, s, r \in FriendUsers :
       \E caller \in {r, "C"} : HandleFriendRequestCall(k, caller, s, r, TRUE)
  \/ \E k \in Slots : HandleFriendRequestUpdate(k)
  \/ \E k \in Slots : HandleFriendRequestCheck(k)
  \/ \E k \in Slots : HandleFriendRequestInsert(k)
  \/ \E k \in Slots, u1, u2 \in FriendUsers :
       \E caller \in {u1, "C"} : u1 # u2 /\ CreateDirectChatCall(k, caller, u1, u2)
  \/ \E k \in Slots : CreateDirectChatSelect(k)
  \/ \E k \in Slots : CreateDirectChatInsert(k)
  \/ \E k \in Slots : RpcReturn(k)

SpecPair == Init /\ [][NextPair]_vars

\* C27: at most one direct chat of the same two users exists, whatever mix of
\* create_direct_chat(a,b), create_direct_chat(b,a) and accepting
\* handle_friend_request calls between a and b has run.
C27_OneDirectChatPerPair ==
  \A a, b \in Users : a # b => Cardinality(DirectChatsOf(a, b)) <= 1

-----------------------------------------------------------------------------
(* The typist stops typing *)

\* A types in the direct chat with B and in a group of its own, sends, idles
\* and goes from one chat to the other; B watches the direct chat.
NextStop ==
  \/ chats = {} /\ CreateDirectChatCall(1, "C", "A", "B")
  \/ CreateDirectChatSelect(1)
  \/ CreateDirectChatInsert(1)
  \/ RpcReturn(1)
  \/ Cardinality(chats) = 1 /\ CreateGroupInsertChat("A", {"B"})
  \/ CreateGroupAddAdmin
  \/ Cardinality(chats) = MaxChats /\ OpenChat("B", 1)
  \/ Cardinality(chats) = MaxChats /\ \E c \in 1..MaxChats : TypistOpen("A", c)
  \/ \E c \in 1..MaxChats : TypistSwitch(c)
  \/ HandleTyping
  \/ TypistSend
  \/ TypingTimeout
  \/ Tick
  \/ TypingDeliver

SpecStop == Init /\ [][NextStop]_vars

\* C28: when the user has stopped typing and no debounce timer is pending, the
\* client has issued typing=false wherever it issued typing=true: no stored
\* typing state of the user is true, in the open chat or in a chat they left.
C28_TypingClearedAfterStop ==
  (typist.open /\ typist.timer = -1)
    => \A r \in typing_status : r.user_id = typist.user => ~r.is_typing

-----------------------------------------------------------------------------
(* One friend request per pair *)

\* C29: at most one friend_requests row exists between any two users, both
\* directions counted, and no pending request stands between users who are
\* friends, for every interleaving of sendFriendRequest calls.
C29_OneRequestPerPair ==
  /\ \A a, b \in Users : Cardinality(RequestsBetween(a, b)) <= 1
  /\ \A q \in friend_requests :
       q.status = "pending" => FriendshipsBetween(q.sender_id, q.receiver_id) = {}

-----------------------------------------------------------------------------
(* How a user becomes a member of a group chat *)

\* C30: a user is a member of a group chat only as its creator (the admin row
\* made at creation) or through an accepted invitation: a user who is not a
\* member cannot make themselves one by their own chat_members insert.
C30_MembershipOnlyByInvitation ==
  \A m \in chat_members :
    (\E c \in chats : c.id = m.chat_id /\ c.type = "group")
      => \/ m.role = "admin"
         \/ \E gi \in group_invitations : /\ gi.chat_id = m.chat_id
                                          /\ gi.invitee_id = m.user_id
                                          /\ gi.status = "accepted"

====
